---- MODULE Spec2Model ----
(***************************************************************************)
(* Model of src/image.rs: Image<T>, a typed, bounds-checked view over the  *)
(* XI_IMG descriptor that the camera driver fills in.                      *)
(*                                                                         *)
(* Machine integers are scaled down so that TLC can enumerate them: a u32  *)
(* field has U32Bits bits and usize has UsizeBits bits (twice as many, as  *)
(* on a 64-bit target).  All arithmetic of pixel() is done modulo          *)
(* 2^UsizeBits and records whether the exact result did not fit.           *)
(***************************************************************************)
EXTENDS Integers, FiniteSets, Sequences, TLC

VARIABLES
    xi_img,           \* Image::xi_img, the XI_IMG descriptor held by value
    size_of_T,        \* size_of::<T>() of the view's pixel type T
    overflow_checks,  \* build profile: TRUE = overflow-checks on (debug)
    ctor,             \* which constructor produced the view
    acquisition,      \* "none": never attempted, "failed": every attempt
                      \* failed so far, "ok": a population call succeeded
    last              \* the last call made on the view and what it returned

vars == <<xi_img, size_of_T, overflow_checks, ctor, acquisition, last>>

---------------------------------------------------------------------------
(* Bounds of the model *)

U32Bits == 8
UsizeBits == 16
MaxDim == 2
MaxPixelSize == 2

U32Max == 2^U32Bits - 1
UsizeMod == 2^UsizeBits
UsizeMax == UsizeMod - 1

\* values a u32 descriptor field is drawn from: the small ones and u32::MAX
DimValues == (0..MaxDim) \cup {U32Max}
\* non-null buffer addresses: lowest, middle and highest of the address space
BufferPointers == {1, UsizeMod \div 2, UsizeMax}
\* usize coordinates passed to pixel(), including usize::MAX
Coords == (0..(MaxDim + 1)) \cup {U32Max - 1, U32Max, UsizeMax}
\* size_of::<T>() for the pixel types tried (0 is a zero-sized T)
PixelSizes == 0..MaxPixelSize

---------------------------------------------------------------------------
(* The descriptor and its construction *)

\* size_of::<XI_IMG>(): the byte size of the descriptor record.  The layout
\* is fixed by xiapi_sys; the model only needs a non-zero value that a u32
\* holds.
SizeOfXiImg == 232

\* `n as u32`
AsU32(n) == n % (U32Max + 1)

\* `n as usize` of a u32
AsUsize(n) == n % UsizeMod

\* A record taken from uninitialised memory, as MaybeUninit::uninit() gives.
uninit == [size |-> 1, bp |-> 1, width |-> 1, height |-> 1, padding_x |-> 1,
           rest |-> 1]

\* MaybeUninit::<XI_IMG>::zeroed(): every byte of the record is zero.  The
\* fields pixel() never reads are kept together in `rest`.
zeroed == [size |-> 0, bp |-> 0, width |-> 0, height |-> 0, padding_x |-> 0,
           rest |-> 0]

\* A descriptor whose size field was left zero.
new_without_size == zeroed

\* A descriptor taken from uninitialised memory rather than zeroed memory.
new_uninit == [zeroed EXCEPT !.size = AsU32(SizeOfXiImg), !.width = 1,
                             !.height = 1]

\* Image::new
new == [zeroed EXCEPT !.size = AsU32(SizeOfXiImg)]

\* A default view that does not go through new().
default_garbage == [zeroed EXCEPT !.width = 1, !.height = 1, !.bp = 1]

\* <Image<T> as Default>::default
default == new

---------------------------------------------------------------------------
(* Results *)

None == [tag |-> "None", val |-> 0]
Some(a) == [tag |-> "Some", val |-> a]
Panic == [tag |-> "panic", val |-> 0]
U32(n) == [tag |-> "u32", val |-> n]
Ok == [tag |-> "Ok", val |-> 0]
Err == [tag |-> "Err", val |-> 0]

---------------------------------------------------------------------------
(* usize arithmetic: the wrapped value and whether the exact result wrapped *)

MulUsize(a, b) == [val |-> (a * b) % UsizeMod, ovf |-> a * b > UsizeMax]
AddUsize(a, b) == [val |-> (a + b) % UsizeMod, ovf |-> a + b > UsizeMax]

---------------------------------------------------------------------------
(* Image::pixel *)

\* Bounds check that lets x = width and y = height through.
in_bounds_off_by_one(img, x, y) ==
    ~(x > AsUsize(img.width) \/ y > AsUsize(img.height))

\* line 50, negated: the coordinates pass the bounds check
in_bounds(img, x, y) ==
    ~(x >= AsUsize(img.width) \/ y >= AsUsize(img.height))

\* Stride that forgets the row padding.
stride_without_padding(img, S) ==
    LET m == MulUsize(AsUsize(img.width), S)
    IN  [val |-> m.val, ovf |-> m.ovf]

\* line 54: width as usize * size_of::<T>() + padding_x as usize
stride(img, S) ==
    LET m == MulUsize(AsUsize(img.width), S)
        s == AddUsize(m.val, AsUsize(img.padding_x))
    IN  [val |-> s.val, ovf |-> m.ovf \/ s.ovf]

\* line 55: (stride * y) + (x * size_of::<T>())
offset(img, S, x, y) ==
    LET st == stride(img, S)
        a  == MulUsize(st.val, y)
        b  == MulUsize(x, S)
        c  == AddUsize(a.val, b.val)
    IN  [val |-> c.val, ovf |-> st.ovf \/ a.ovf \/ b.ovf \/ c.ovf]

\* line 57: buffer.add(offset); it is undefined behaviour when the address
\* computation wraps around the address space.
ptr_add(buffer, off) ==
    [val |-> (buffer + off) % UsizeMod, ub |-> buffer + off > UsizeMax]

\* line 58: <*const T>::as_ref
as_ref(p) == IF p = 0 THEN None ELSE Some(p)

\* The set of outcomes of pixel(x, y).  With overflow checks an overflowing
\* multiplication or addition panics, without them it wraps.  When the
\* pointer addition wrapped, the null test of as_ref may have been removed
\* by the compiler, so a null pointer can come back as a reference.
pixel(img, S, checks, x, y) ==
    LET buffer == img.bp
        off    == offset(img, S, x, y)
        p      == ptr_add(buffer, off.val)
    IN  IF buffer = 0 THEN {None}
        ELSE IF ~in_bounds(img, x, y) THEN {None}
        ELSE IF off.ovf /\ checks THEN {Panic}
        ELSE IF p.ub \/ off.ovf THEN {as_ref(p.val), Some(p.val)}
        ELSE {as_ref(p.val)}

\* Image::width
width(img) == img.width

\* Image::height
height(img) == img.height

---------------------------------------------------------------------------
(* Operations on a view *)

Call(op, x, y, res) == [op |-> op, x |-> x, y |-> y, res |-> res]

\* A pixel() that writes to the descriptor.
CallPixelMutating ==
    \E x \in Coords, y \in Coords :
        \E r \in pixel(xi_img, size_of_T, overflow_checks, x, y) :
            /\ last' = Call("pixel", x, y, r)
            /\ xi_img' = [xi_img EXCEPT !.width = 0]
            /\ UNCHANGED <<size_of_T, overflow_checks, ctor, acquisition>>

\* A pixel() that puts the view back into the state new() gives.
CallPixelResetting ==
    \E x \in Coords, y \in Coords :
        \E r \in pixel(xi_img, size_of_T, overflow_checks, x, y) :
            /\ last' = Call("pixel", x, y, r)
            /\ xi_img' = new
            /\ UNCHANGED <<size_of_T, overflow_checks, ctor, acquisition>>

\* pixel(&self, x, y)
CallPixel ==
    \E x \in Coords, y \in Coords :
        \E r \in pixel(xi_img, size_of_T, overflow_checks, x, y) :
            /\ last' = Call("pixel", x, y, r)
            /\ UNCHANGED <<xi_img, size_of_T, overflow_checks, ctor, acquisition>>

\* width(&self)
CallWidth ==
    /\ last' = Call("width", 0, 0, U32(width(xi_img)))
    /\ UNCHANGED <<xi_img, size_of_T, overflow_checks, ctor, acquisition>>

\* height(&self)
CallHeight ==
    /\ last' = Call("height", 0, 0, U32(height(xi_img)))
    /\ UNCHANGED <<xi_img, size_of_T, overflow_checks, ctor, acquisition>>

\* The buffer of stride * height bytes at address b lies in the address space.
BufferFits(b, w, h, p, S) == b + (w * S + p) * h <= UsizeMod

\* The acquisition call succeeds: the driver writes the descriptor of a
\* buffer of at least stride * height bytes into the unpopulated view.
Acquire ==
    /\ acquisition # "ok"
    /\ \E w \in DimValues, h \in DimValues, p \in DimValues, b \in BufferPointers :
          /\ BufferFits(b, w, h, p, size_of_T)
          /\ xi_img' = [xi_img EXCEPT !.width = w, !.height = h,
                                      !.padding_x = p, !.bp = b, !.rest = 1]
    /\ acquisition' = "ok"
    /\ last' = Call("acquire", 0, 0, Ok)
    /\ UNCHANGED <<size_of_T, overflow_checks, ctor>>

\* The acquisition call fails and leaves the view as it was.
AcquireFail ==
    /\ acquisition # "ok"
    /\ acquisition' = "failed"
    /\ last' = Call("acquire", 0, 0, Err)
    /\ UNCHANGED <<xi_img, size_of_T, overflow_checks, ctor>>

---------------------------------------------------------------------------
(* The life of a view: construction, acquisition, reads *)

Init ==
    /\ ctor \in {"new", "default"}
    /\ xi_img = IF ctor = "new" THEN new ELSE default
    /\ size_of_T \in PixelSizes
    /\ overflow_checks \in BOOLEAN
    /\ acquisition = "none"
    /\ last = Call(ctor, 0, 0, Ok)

Next ==
    \/ Acquire
    \/ AcquireFail
    \/ CallPixel
    \/ CallWidth
    \/ CallHeight

Spec == Init /\ [][Next]_vars

---------------------------------------------------------------------------
(* pixel() as a function of any descriptor: the view holds an arbitrary    *)
(* descriptor and pixel type, and the accessors are called on it.          *)

AnyDescriptor ==
    { [new EXCEPT !.width = w, !.height = h, !.padding_x = p, !.bp = b] :
        w \in DimValues, h \in DimValues, p \in DimValues,
        b \in {0} \cup BufferPointers }

InitAny ==
    /\ ctor = "new"
    /\ xi_img \in AnyDescriptor
    /\ size_of_T \in PixelSizes
    /\ overflow_checks \in BOOLEAN
    /\ acquisition = "ok"
    /\ last = Call("acquire", 0, 0, Ok)

NextAny ==
    \/ CallPixel
    \/ CallWidth
    \/ CallHeight

SpecAny == InitAny /\ [][NextAny]_vars

---------------------------------------------------------------------------
(* Exact (unbounded) values of the address formula, and shorthands *)

ExactStride(img, S) == img.width * S + img.padding_x
ExactOffset(img, S, x, y) == ExactStride(img, S) * y + x * S

\* the last call was pixel(x, y) with x < width and y < height on a view
\* whose buffer pointer is non-null
LastPixelInBounds ==
    /\ last.op = "pixel"
    /\ xi_img.bp # 0
    /\ last.x < xi_img.width
    /\ last.y < xi_img.height

\* the view is in the unpopulated state and answers as such
Unpopulated ==
    /\ width(xi_img) = 0
    /\ height(xi_img) = 0
    /\ xi_img.bp = 0
    /\ \A x \in Coords, y \in Coords :
          pixel(xi_img, size_of_T, overflow_checks, x, y) = {None}
    /\ last.op = "pixel" => last.res = None
    /\ last.op \in {"width", "height"} => last.res = U32(0)

---------------------------------------------------------------------------
(* Claims *)

\* C1: for any descriptor and any coordinates, pixel(x, y) returns a present
\* value exactly when the buffer pointer is non-null, x < width and
\* y < height, and returns absence (never a fault) in every other case.
C1_PresentIffInBounds ==
    last.op = "pixel" =>
        /\ last.res.tag = "Some" <=> LastPixelInBounds
        /\ ~LastPixelInBounds => last.res = None

\* C2: on a populated view every in-bounds pixel(x, y) returns the address
\* base + (W*S + P) * y + x * S exactly.
C2_AddressFormula ==
    (acquisition = "ok" /\ LastPixelInBounds) =>
        last.res = Some(xi_img.bp + ExactOffset(xi_img, size_of_T, last.x, last.y))

C2_Witness ==
    /\ acquisition = "ok"
    /\ LastPixelInBounds
    /\ last.res.tag = "Some"
    /\ xi_img.padding_x > 0
    /\ size_of_T > 1
    /\ last.x > 0
    /\ last.y > 0

\* C3: a freshly constructed view that has not been populated reports
\* width 0, height 0, a null buffer pointer, and pixel(x, y) is absent for
\* every (x, y), (0, 0) included.
C3_FreshViewEmpty ==
    acquisition = "none" => Unpopulated

C3_Witness ==
    /\ acquisition = "none"
    /\ last = Call("pixel", 0, 0, None)

\* C4: every byte of a pixel that pixel(x, y) returns lies in the pixel-data
\* part of row y, so no byte of a row's padding is addressed and every byte
\* is inside the buffer of (W*S + P) * H bytes; with padding_x = 0 the
\* stride is exactly W*S.
C4_PaddingNeverAddressed ==
    /\ (acquisition = "ok" /\ last.op = "pixel" /\ last.res.tag = "Some") =>
          LET S     == size_of_T
              st    == ExactStride(xi_img, S)
              data  == xi_img.width * S
              first == last.res.val - xi_img.bp
              bytes == first..(first + S - 1)
          IN  /\ \A k \in bytes :
                    /\ st * last.y <= k
                    /\ k < st * last.y + data
                    /\ k < st * xi_img.height
                    /\ \A r \in 0..(xi_img.height - 1) :
                          ~(st * r + data <= k /\ k < st * (r + 1))
              /\ st * last.y <= first
              /\ first + S <= st * last.y + data
    /\ (acquisition = "ok" /\ xi_img.padding_x = 0) =>
          stride(xi_img, size_of_T) = [val |-> xi_img.width * size_of_T, ovf |-> FALSE]

C4_Witness ==
    /\ acquisition = "ok"
    /\ last.op = "pixel"
    /\ last.res.tag = "Some"
    /\ xi_img.padding_x > 0
    /\ size_of_T > 0
    /\ xi_img.height > 1
    /\ last.x = xi_img.width - 1
    /\ last.y = xi_img.height - 1

\* C5: an accessor call (pixel, width, height) leaves the descriptor and the
\* pixel type as they were, and a call repeated with the same coordinates
\* returns the same result.
C5_AccessorsPure ==
    [][ last'.op \in {"pixel", "width", "height"} =>
          /\ xi_img' = xi_img
          /\ size_of_T' = size_of_T
          /\ (last.op = last'.op /\ last.x = last'.x /\ last.y = last'.y) =>
                last'.res = last.res ]_vars

C5_Witness ==
    /\ acquisition = "ok"
    /\ last.op = "pixel"
    /\ last.res.tag = "Some"
    /\ xi_img.width > 0
    /\ xi_img.padding_x > 0

\* C6: new() gives a descriptor whose size field is the byte size of the
\* record and whose every other field is zero.
C6_NewZeroExceptSize ==
    last.op = "new" =>
        /\ xi_img.size = SizeOfXiImg
        /\ xi_img.width = 0
        /\ xi_img.height = 0
        /\ xi_img.padding_x = 0
        /\ xi_img.bp = 0
        /\ xi_img.rest = 0

C6_Witness ==
    /\ last.op = "new"
    /\ ctor = "new"
    /\ xi_img.size > 0

\* C7: as long as no population call has succeeded, also after failed
\* attempts, the view stays in the unpopulated state.
C7_UnpopulatedUntilSuccess ==
    acquisition # "ok" => Unpopulated

C7_Witness ==
    /\ acquisition = "failed"
    /\ last.op = "pixel"
    /\ last.res = None

\* C8: a default-constructed view behaves as an empty-constructed one: same
\* width(), same height(), and pixel(x, y) absent for the same coordinates.
C8_DefaultLikeNew ==
    (ctor = "default" /\ acquisition = "none") =>
        /\ width(xi_img) = width(new)
        /\ height(xi_img) = height(new)
        /\ \A x \in Coords, y \in Coords :
              /\ pixel(xi_img, size_of_T, overflow_checks, x, y)
                    = pixel(new, size_of_T, overflow_checks, x, y)
              /\ pixel(xi_img, size_of_T, overflow_checks, x, y) = {None}
        /\ last.op = "pixel" => last.res = None
        /\ last.op = "width" => last.res = U32(width(new))
        /\ last.op = "height" => last.res = U32(height(new))

C8_Witness ==
    /\ ctor = "default"
    /\ acquisition = "none"
    /\ last.op = "pixel"

\* C9: the view becomes populated only by a successful acquisition call, and
\* once populated it stays populated with the buffer pointer, width, height
\* and padding_x the acquisition wrote.
C9_PopulatedOnceThenReadOnly ==
    [][ /\ acquisition = "ok" =>
              /\ acquisition' = "ok"
              /\ xi_img.bp # 0
              /\ xi_img' = xi_img
        /\ (xi_img.bp = 0 /\ xi_img'.bp # 0) =>
              /\ last' = Call("acquire", 0, 0, Ok)
              /\ acquisition # "ok"
              /\ acquisition' = "ok"
        /\ xi_img.bp # 0 => xi_img'.bp # 0 ]_vars

C9_Witness ==
    /\ acquisition = "ok"
    /\ last.op = "pixel"
    /\ xi_img.bp # 0

\* C10: for every descriptor, pixel size and in-bounds (x, y), the stride and
\* the offset that pixel computes in usize arithmetic equal their exact
\* values, and the call does not fault.
C10_NoWrap ==
    LastPixelInBounds =>
        /\ stride(xi_img, size_of_T)
              = [val |-> ExactStride(xi_img, size_of_T), ovf |-> FALSE]
        /\ offset(xi_img, size_of_T, last.x, last.y)
              = [val |-> ExactOffset(xi_img, size_of_T, last.x, last.y), ovf |-> FALSE]
        /\ last.res # Panic

====
